---------------------------- MODULE Spec2Model ----------------------------
(***************************************************************************)
(* The form controller of src/App.tsx (component App): the status          *)
(* lifecycle, the read request of loadData, the write request of           *)
(* handleSubmit, the three editable fields and the submitting flag.        *)
(*                                                                         *)
(* JavaScript runs one callback at a time, so every handler is one action  *)
(* up to its `await`, and the code after the `await` is a second action    *)
(* that runs once the request has settled.  A request is in flight from    *)
(* the fetch call until that continuation has run.                         *)
(***************************************************************************)
EXTENDS Naturals, Sequences, FiniteSets, TLC

VARIABLES
    status,        \* App.tsx:6   useState<AppStatus>
    errorMessage,  \* App.tsx:7   useState<string>, a text (sequence of parts)
    prefillData,   \* App.tsx:8   useState<PrefillData | null>
    company,       \* App.tsx:11  a string, as a sequence of characters
    profession,    \* App.tsx:12
    description,   \* App.tsx:13
    isSubmitting,  \* App.tsx:14
    mounted,       \* whether the mount effect of App.tsx:53-55 has run
    urlId,         \* the 'id' parameter of window.location.search
    history,       \* the session history entries below the current one
    reads,         \* read requests in flight (App.tsx:29), oldest first
    writes,        \* write requests in flight (App.tsx:74), oldest first
    userActions,   \* record of the session: the clicks on retry, sample id
                   \* and submit so far, oldest first
    requestCount   \* record of the session: the fetch calls made so far

\* The state of the page.
pageVars == <<status, errorMessage, prefillData, company, profession,
              description, isSubmitting, mounted, urlId, history, reads, writes>>

\* The record of the session; the page never reads it.  It is kept by
\* SpecCounted only and stays empty under Spec.
sessionLog == <<userActions, requestCount>>

vars == <<pageVars, sessionLog>>

formState == <<company, profession, description>>

-----------------------------------------------------------------------------
(* Bounds of the model. *)

\* How many entries handleTestLink's pushState may stack on the history.
MaxHistory == 1

\* How many clicks on retry, sample id and submit SpecCounted follows.
MaxUserActions == 2

-----------------------------------------------------------------------------
(* Values. *)

\* Markers for JavaScript's null and undefined; neither is a string value.
Null == "<null>"
Undefined == "<undefined>"

\* JavaScript truthiness of a string-or-null-or-undefined value.
Falsy(v) == v \in {Null, Undefined, ""}

\* AppStatus.
AppStatus ==
    {"LOADING", "IDLE", "ERROR", "ALREADY_SUBMITTED", "MISSING_ID", "SUCCESS"}

\* The literal id of handleTestLink.
testId == "rsjk3i"

\* What URLSearchParams.get('id') may return when the page is opened:
\* no parameter, an empty parameter ("?id="), or an id.
InitialUrlIds == {Null, "", "u1"}

\* Characters of the typed texts.  WhiteSpace is what String.prototype.trim
\* strips; of these only the blank is typed in this model.
WhiteSpace == {" ", "\t", "\n", "\r"}
IsWhiteSpace(c) == c \in WhiteSpace

\* The values typed or pasted into a field: empty, blank only, and two words
\* with a blank between them and blanks on both sides.
FieldTexts ==
    { <<>>, <<" ">>, <<" ", "a", " ", "b", " ">> }

\* The records the read endpoint may return (PrefillData): Link empty, equal
\* to the URL's id or different from it; Company/Profession absent or present;
\* Submitted absent, the sentinel, or another text.
Records ==
    [ Name : {"Ann"}, Email : {"ann@x.org"}, Payment : {100},
      Link : {"", "u1", "k9"},
      Company : {Undefined, "Acme"},
      Profession : {Undefined},
      Submitted : {Undefined, "Yes", "No"} ]


-----------------------------------------------------------------------------
(* Texts: error messages are sequences of parts, so that a template with a  *)
(* substituted value stays comparable with another template.                 *)

EmptyText == <<>>

\* Whether a text is the empty string: it has no part, or only empty parts.
IsEmptyText(t) == \A i \in DOMAIN t : t[i] = ""

\* App.tsx:33  `ID "${id}" not found. Please check your personalized link.`
NotFoundMessage(id) ==
    << "ID \"", id, "\" not found. Please check your personalized link." >>

\* App.tsx:35  `Server returned error ${response.status}: ${response.statusText}`
ServerErrorMessage(code, statusText) ==
    << "Server returned error ", ToString(code), ": ", statusText >>

\* App.tsx:48  the text shown when what was thrown is no Error
LoadFallbackMessage ==
    << "Failed to connect to the server. Please check your internet connection." >>

\* App.tsx:83
SubmitFailedMessage ==
    << "Submission failed. The server might be temporarily busy." >>

\* App.tsx:88  the text shown when what was thrown is no Error
SubmitFallbackMessage == << "Could not submit your form. Please try again." >>

\* A thrown value: an Error with its message, or a value that is no Error.
NewError(message) == [isError |-> TRUE, message |-> message]
NonError == [isError |-> FALSE, message |-> EmptyText]

\* App.tsx:48 and App.tsx:88  error instanceof Error ? error.message : fallback
CatchMessage(error, fallback) ==
    IF error.isError THEN error.message ELSE fallback

-----------------------------------------------------------------------------
(* The network: what a fetch call may settle to.                            *)

\* What fetch itself, or response.json(), may throw: the browser's TypeError
\* and SyntaxError carry a message; a value that is no Error takes the
\* fallback branch of the catch blocks.
FetchTypeError == NewError(<< "Failed to fetch" >>)
JsonSyntaxError == NewError(<< "Unexpected end of JSON input" >>)
Thrown == {FetchTypeError, NonError}

\* A settled fetch: rejected with a reason, or fulfilled with a Response whose
\* body parses to json[1] (json = <<>>: the body is no JSON).
Rejected(reason) ==
    [rejected |-> TRUE, status |-> 0, statusText |-> "", json |-> <<>>,
     reason |-> <<reason>>]
Fulfilled(code, statusText, json) ==
    [rejected |-> FALSE, status |-> code, statusText |-> statusText,
     json |-> json, reason |-> <<>>]

\* Response.ok
Ok(response) == response.status \in 200..299

FailureCodes == {404, 500}
StatusTexts == {"", "Error"}

ReadReplies ==
    { Fulfilled(200, "OK", <<d>>) : d \in Records }
    \cup { Fulfilled(200, "OK", <<>>) }
    \cup { Fulfilled(c, t, <<>>) : c \in FailureCodes, t \in StatusTexts }
    \cup { Rejected(e) : e \in Thrown }

WriteReplies ==
    { Fulfilled(200, "OK", <<>>) }
    \cup { Fulfilled(c, "", <<>>) : c \in FailureCodes }
    \cup { Rejected(e) : e \in Thrown }

\* A request in flight; reply = <<>> until the fetch has settled.
ReadRequest(id) == [id |-> id, reply |-> <<>>]
WriteRequest(payload) == [payload |-> payload, reply |-> <<>>]

RemoveAt(s, i) == SubSeq(s, 1, i - 1) \o SubSeq(s, i + 1, Len(s))

Last(s) == s[Len(s)]
Front(s) == SubSeq(s, 1, Len(s) - 1)

-----------------------------------------------------------------------------
(* Construction and the read flow.                                           *)

\* App.tsx:6-14, the useState initial values; the page is opened with or
\* without an id and no request has been made.
Init ==
    /\ status = "LOADING"
    /\ errorMessage = EmptyText
    /\ prefillData = <<>>
    /\ company = <<>>
    /\ profession = <<>>
    /\ description = <<>>
    /\ isSubmitting = FALSE
    /\ mounted = FALSE
    /\ urlId \in InitialUrlIds
    /\ history = <<>>
    /\ reads = <<>>
    /\ writes = <<>>
    /\ userActions = <<>>
    /\ requestCount = 0

\* loadData without the setErrorMessage('') of App.tsx:18.
LoadData_KeepsError(targetId, locationId) ==
    LET id == IF Falsy(targetId) THEN locationId ELSE targetId
    IN  /\ IF Falsy(id)
           THEN /\ status' = "MISSING_ID"
                /\ reads' = reads
           ELSE /\ status' = "LOADING"
                /\ reads' = Append(reads, ReadRequest(id))
        /\ UNCHANGED <<errorMessage, prefillData, formState, isSubmitting,
                       writes>>

\* loadData without the `return` of App.tsx:25: the request is made anyway.
LoadData_NoReturn(targetId, locationId) ==
    LET id == IF Falsy(targetId) THEN locationId ELSE targetId
    IN  /\ errorMessage' = EmptyText
        /\ status' = IF Falsy(id) THEN "MISSING_ID" ELSE "LOADING"
        /\ reads' = Append(reads, ReadRequest(id))
        /\ UNCHANGED <<prefillData, formState, isSubmitting, writes>>

\* App.tsx:16-29  loadData up to its await: locationId is the 'id' parameter
\* of window.location.search when it runs.
LoadData(targetId, locationId) ==
    LET id == IF Falsy(targetId) THEN locationId ELSE targetId
    IN  /\ errorMessage' = EmptyText
        /\ IF Falsy(id)
           THEN /\ status' = "MISSING_ID"
                /\ reads' = reads
           ELSE /\ status' = "LOADING"
                /\ reads' = Append(reads, ReadRequest(id))
        /\ UNCHANGED <<prefillData, formState, isSubmitting, writes>>

\* The effect without its dependency array: it runs after every render.
Mount_EveryRender ==
    /\ mounted' = TRUE
    /\ LoadData(Undefined, urlId)
    /\ UNCHANGED <<urlId, history>>

\* App.tsx:53-55  the mount effect
Mount ==
    /\ ~mounted
    /\ mounted' = TRUE
    /\ LoadData(Undefined, urlId)
    /\ UNCHANGED <<urlId, history>>

\* The server answers a read, or the connection fails.
ReadSettles ==
    \E i \in DOMAIN reads :
        /\ reads[i].reply = <<>>
        /\ \E r \in ReadReplies : reads' = [reads EXCEPT ![i].reply = <<r>>]
        /\ UNCHANGED <<status, errorMessage, prefillData, formState,
                       isSubmitting, mounted, urlId, history, writes>>

\* The try block of loadData without the 404 branch of App.tsx:32-34.
LoadDataThrown_No404(id, r) ==
    IF r.rejected THEN r.reason
    ELSE IF ~Ok(r)
         THEN << NewError(ServerErrorMessage(r.status, r.statusText)) >>
    ELSE IF r.json = <<>> THEN << JsonSyntaxError >>
    ELSE <<>>

\* App.tsx:29-38  what the try block of loadData throws for a settled fetch:
\* <<>> when it throws nothing.
LoadDataThrown(id, r) ==
    IF r.rejected THEN r.reason
    ELSE IF ~Ok(r)
         THEN IF r.status = 404
              THEN << NewError(NotFoundMessage(id)) >>
              ELSE << NewError(ServerErrorMessage(r.status, r.statusText)) >>
    ELSE IF r.json = <<>> THEN << JsonSyntaxError >>
    ELSE <<>>

\* The test of App.tsx:40 with the sentinel in lower case.
IsSubmitted_LowerCase(data) == data.Submitted = "yes"

\* The test of App.tsx:40 as a truthiness test: if (data.Submitted).
IsSubmitted_Truthy(data) == ~Falsy(data.Submitted)

\* App.tsx:40  data.Submitted === 'Yes'
IsSubmitted(data) == data.Submitted = "Yes"

\* App.tsx:46-50  the catch block of loadData
LoadDataCatch(error) ==
    /\ errorMessage' = CatchMessage(error, LoadFallbackMessage)
    /\ status' = "ERROR"
    /\ UNCHANGED prefillData

\* The continuation of loadData without the setPrefillData of App.tsx:43.
LoadDataResume_NoStore ==
    \E i \in DOMAIN reads :
        /\ reads[i].reply # <<>>
        /\ LET r == reads[i].reply[1]
               thrown == LoadDataThrown(reads[i].id, r)
           IN  IF thrown # <<>>
               THEN LoadDataCatch(thrown[1])
               ELSE /\ status' = IF IsSubmitted(r.json[1])
                                 THEN "ALREADY_SUBMITTED" ELSE "IDLE"
                    /\ UNCHANGED <<prefillData, errorMessage>>
        /\ reads' = RemoveAt(reads, i)
        /\ UNCHANGED <<formState, isSubmitting, mounted, urlId, history, writes>>

\* App.tsx:29-50  loadData after its await
LoadDataResume ==
    \E i \in DOMAIN reads :
        /\ reads[i].reply # <<>>
        /\ LET r == reads[i].reply[1]
               thrown == LoadDataThrown(reads[i].id, r)
           IN  IF thrown # <<>>
               THEN LoadDataCatch(thrown[1])
               ELSE IF IsSubmitted(r.json[1])
               THEN /\ status' = "ALREADY_SUBMITTED"
                    /\ UNCHANGED <<prefillData, errorMessage>>
               ELSE /\ prefillData' = << r.json[1] >>
                    /\ status' = "IDLE"
                    /\ UNCHANGED errorMessage
        /\ reads' = RemoveAt(reads, i)
        /\ UNCHANGED <<formState, isSubmitting, mounted, urlId, history, writes>>

-----------------------------------------------------------------------------
(* What renderContent offers the user in each status.                        *)

\* The retry button rendered on the IDLE screen as well.
RetryRendered_AlsoIdle == status \in {"ERROR", "IDLE"}

\* App.tsx:134-146  the "Retry Connection" button of the ERROR screen
RetryRendered == status = "ERROR"

\* The sample-id button rendered on the ALREADY_SUBMITTED screen as well.
TestLinkRendered_AlsoSubmitted ==
    status \in {"MISSING_ID", "ERROR", "ALREADY_SUBMITTED"}

\* App.tsx:114-129 and App.tsx:147-152  the sample-id button of the
\* MISSING_ID screen and of the ERROR screen
TestLinkRendered == status \in {"MISSING_ID", "ERROR"}

\* The form rendered whatever the status is (no switch on status).
FormRendered_Always == TRUE

\* The form rendered by the ALREADY_SUBMITTED case as well.
FormRendered_AlsoSubmitted == status \in {"IDLE", "ALREADY_SUBMITTED"}

\* The form rendered by the SUCCESS case as well (a case falling through).
FormRendered_AlsoSuccess == status \in {"IDLE", "SUCCESS"}

\* App.tsx:179-181  the form and its inputs exist in the IDLE screen only
FormRendered == status = "IDLE"

\* The submit button without its `disabled` attribute.
SubmitEnabled_Always == TRUE

\* App.tsx:288-290  disabled={isSubmitting}: a disabled submit button also
\* blocks the implicit submission by the Enter key
SubmitEnabled == ~isSubmitting

\* App.tsx:242, 256, 271  `required`: the browser fires no submit event while
\* one of the three values is empty
FieldsValid == company # <<>> /\ profession # <<>> /\ description # <<>>

\* The retry button wired as the sample-id button is: loadData(testId).
Retry_WithTestId ==
    /\ RetryRendered
    /\ LoadData(testId, urlId)
    /\ UNCHANGED <<mounted, urlId, history>>

\* App.tsx:142  onClick={() => loadData()}
Retry ==
    /\ RetryRendered
    /\ LoadData(Undefined, urlId)
    /\ UNCHANGED <<mounted, urlId, history>>

\* App.tsx:93-102  handleTestLink: pushState adds a history entry whose URL
\* carries the test id, then loadData(testId)
HandleTestLink ==
    /\ TestLinkRendered
    /\ Len(history) < MaxHistory
    /\ history' = Append(history, urlId)
    /\ urlId' = testId
    /\ LoadData(testId, testId)
    /\ UNCHANGED mounted

\* The browser's Back button on an entry made by pushState (App.tsx:98):
\* the URL changes back and the document, with its state, stays.
Back ==
    /\ history # <<>>
    /\ urlId' = Last(history)
    /\ history' = Front(history)
    /\ UNCHANGED <<status, errorMessage, prefillData, formState, isSubmitting,
                   mounted, reads, writes>>

\* App.tsx:244  onChange={(e) => setCompany(e.target.value)}
SetCompany ==
    /\ FormRendered
    /\ \E v \in FieldTexts \ {company} : company' = v
    /\ UNCHANGED <<status, errorMessage, prefillData, profession, description,
                   isSubmitting, mounted, urlId, history, reads, writes>>

\* App.tsx:258  onChange={(e) => setProfession(e.target.value)}
SetProfession ==
    /\ FormRendered
    /\ \E v \in FieldTexts \ {profession} : profession' = v
    /\ UNCHANGED <<status, errorMessage, prefillData, company, description,
                   isSubmitting, mounted, urlId, history, reads, writes>>

\* App.tsx:274  onChange={(e) => setDescription(e.target.value)}
SetDescription ==
    /\ FormRendered
    /\ \E v \in FieldTexts \ {description} : description' = v
    /\ UNCHANGED <<status, errorMessage, prefillData, company, profession,
                   isSubmitting, mounted, urlId, history, reads, writes>>

-----------------------------------------------------------------------------
(* The write flow.                                                           *)

RECURSIVE TrimStart(_)
\* String.prototype.trim, the leading part
TrimStart(s) ==
    IF s # <<>> /\ IsWhiteSpace(Head(s)) THEN TrimStart(Tail(s)) ELSE s

RECURSIVE TrimEnd(_)
\* String.prototype.trim, the trailing part
TrimEnd(s) ==
    IF s # <<>> /\ IsWhiteSpace(Last(s)) THEN TrimEnd(Front(s)) ELSE s

\* trimStart in the place of trim.
Trim_StartOnly(s) == TrimStart(s)

\* App.tsx:68-70  String.prototype.trim
Trim(s) == TrimEnd(TrimStart(s))

\* The id of App.tsx:64 with the URL's id preferred to the record's Link.
CurrentId_UrlFirst(data, locationId) ==
    IF ~Falsy(locationId) THEN locationId
    ELSE IF ~Falsy(data.Link) THEN data.Link
    ELSE ""

\* App.tsx:64  prefillData.Link || new URLSearchParams(...).get('id') || ''
CurrentId(data, locationId) ==
    IF ~Falsy(data.Link) THEN data.Link
    ELSE IF ~Falsy(locationId) THEN locationId
    ELSE ""

\* App.tsx:66-71  the SubmissionPayload
Payload(data, locationId) ==
    [ id |-> CurrentId(data, locationId),
      Company |-> Trim(company),
      Profession |-> Trim(profession),
      Description |-> Trim(description) ]

\* handleSubmit without the setErrorMessage('') of App.tsx:62.
HandleSubmit_KeepsError ==
    IF prefillData = <<>>
    THEN UNCHANGED pageVars
    ELSE /\ isSubmitting' = TRUE
         /\ writes' = Append(writes, WriteRequest(Payload(prefillData[1], urlId)))
         /\ UNCHANGED <<status, errorMessage, prefillData, formState, mounted,
                        urlId, history, reads>>

\* handleSubmit without the setIsSubmitting(true) of App.tsx:61.
HandleSubmit_NoFlag ==
    IF prefillData = <<>>
    THEN UNCHANGED pageVars
    ELSE /\ errorMessage' = EmptyText
         /\ writes' = Append(writes, WriteRequest(Payload(prefillData[1], urlId)))
         /\ UNCHANGED <<status, isSubmitting, prefillData, formState, mounted,
                        urlId, history, reads>>

\* App.tsx:57-80  handleSubmit up to its await
HandleSubmit ==
    IF prefillData = <<>>
    THEN UNCHANGED pageVars
    ELSE /\ isSubmitting' = TRUE
         /\ errorMessage' = EmptyText
         /\ writes' = Append(writes, WriteRequest(Payload(prefillData[1], urlId)))
         /\ UNCHANGED <<status, prefillData, formState, mounted, urlId,
                        history, reads>>

\* App.tsx:181  <form onSubmit={handleSubmit}>: the submit event of the form
SubmitForm ==
    /\ FormRendered
    /\ SubmitEnabled
    /\ FieldsValid
    /\ HandleSubmit

\* The server answers a write, or the connection fails.
WriteSettles ==
    \E i \in DOMAIN writes :
        /\ writes[i].reply = <<>>
        /\ \E r \in WriteReplies : writes' = [writes EXCEPT ![i].reply = <<r>>]
        /\ UNCHANGED <<status, errorMessage, prefillData, formState,
                       isSubmitting, mounted, urlId, history, reads>>

\* App.tsx:74-84  what the try block of handleSubmit throws for a settled
\* fetch: <<>> when it throws nothing.
HandleSubmitThrown(r) ==
    IF r.rejected THEN r.reason
    ELSE IF ~Ok(r) THEN << NewError(SubmitFailedMessage) >>
    ELSE <<>>

\* The catch block of handleSubmit ending as that of loadData does.
HandleSubmitCatch_ToErrorScreen(error) ==
    /\ errorMessage' = CatchMessage(error, SubmitFallbackMessage)
    /\ status' = "ERROR"
    /\ UNCHANGED isSubmitting

\* The catch block of handleSubmit without the setIsSubmitting(false) of
\* App.tsx:89.
HandleSubmitCatch_KeepsSubmitting(error) ==
    /\ errorMessage' = CatchMessage(error, SubmitFallbackMessage)
    /\ UNCHANGED <<isSubmitting, status>>

\* App.tsx:87-90  the catch block of handleSubmit
HandleSubmitCatch(error) ==
    /\ errorMessage' = CatchMessage(error, SubmitFallbackMessage)
    /\ isSubmitting' = FALSE
    /\ UNCHANGED status

\* App.tsx:82-90  handleSubmit after its await
HandleSubmitResume ==
    \E i \in DOMAIN writes :
        /\ writes[i].reply # <<>>
        /\ LET thrown == HandleSubmitThrown(writes[i].reply[1])
           IN  IF thrown = <<>>
               THEN /\ status' = "SUCCESS"
                    /\ UNCHANGED <<errorMessage, isSubmitting>>
               ELSE HandleSubmitCatch(thrown[1])
        /\ writes' = RemoveAt(writes, i)
        /\ UNCHANGED <<prefillData, formState, mounted, urlId, history, reads>>

-----------------------------------------------------------------------------
(* The specification.                                                        *)

Next ==
    \/ Mount /\ UNCHANGED sessionLog
    \/ ReadSettles /\ UNCHANGED sessionLog
    \/ LoadDataResume /\ UNCHANGED sessionLog
    \/ Retry /\ UNCHANGED sessionLog
    \/ HandleTestLink /\ UNCHANGED sessionLog
    \/ Back /\ UNCHANGED sessionLog
    \/ SetCompany /\ UNCHANGED sessionLog
    \/ SetProfession /\ UNCHANGED sessionLog
    \/ SetDescription /\ UNCHANGED sessionLog
    \/ SubmitForm /\ UNCHANGED sessionLog
    \/ WriteSettles /\ UNCHANGED sessionLog
    \/ HandleSubmitResume /\ UNCHANGED sessionLog

Spec == Init /\ [][Next]_vars

\* The requests in flight.
InFlight == Len(reads) + Len(writes)

\* The fetch calls of a step (App.tsx:29, App.tsx:74) are added to the count.
CountRequests ==
    requestCount' =
        IF InFlight' > InFlight THEN requestCount + (InFlight' - InFlight)
        ELSE requestCount

\* A step of the page itself: the mount effect, a settled fetch, a
\* continuation, an edit, the Back button.
Uncounted == CountRequests /\ UNCHANGED userActions

\* A click on one of the three controls that call loadData or handleSubmit
\* (App.tsx:142, App.tsx:125 and 148, App.tsx:181).
UserAction(name) ==
    /\ Len(userActions) < MaxUserActions
    /\ userActions' = Append(userActions, name)
    /\ CountRequests

\* The same page, with the record of the session kept.
NextCounted ==
    \/ Mount /\ Uncounted
    \/ ReadSettles /\ Uncounted
    \/ LoadDataResume /\ Uncounted
    \/ Retry /\ UserAction("retry")
    \/ HandleTestLink /\ UserAction("sample-id")
    \/ Back /\ Uncounted
    \/ SetCompany /\ Uncounted
    \/ SetProfession /\ Uncounted
    \/ SetDescription /\ Uncounted
    \/ SubmitForm /\ UserAction("submit")
    \/ WriteSettles /\ Uncounted
    \/ HandleSubmitResume /\ Uncounted

SpecCounted == Init /\ [][NextCounted]_vars

\* Every request issued eventually completes and the callbacks the runtime
\* has queued run: the mount effect, the settling of a fetch and the
\* continuation after an await are not left waiting for ever.
Fairness ==
    /\ WF_vars(Mount /\ UNCHANGED sessionLog)
    /\ WF_vars(ReadSettles /\ UNCHANGED sessionLog)
    /\ WF_vars(LoadDataResume /\ UNCHANGED sessionLog)
    /\ WF_vars(WriteSettles /\ UNCHANGED sessionLog)
    /\ WF_vars(HandleSubmitResume /\ UNCHANGED sessionLog)

FairSpec == Spec /\ Fairness

-----------------------------------------------------------------------------
(* Steps, recognised by what they do to the requests in flight.              *)

\* The step is the continuation of loadData for the settled read reads[i].
ReadResumes(i) ==
    /\ i \in DOMAIN reads
    /\ reads[i].reply # <<>>
    /\ reads' = RemoveAt(reads, i)

\* The step is the continuation of handleSubmit for the settled write writes[i].
WriteResumes(i) ==
    /\ i \in DOMAIN writes
    /\ writes[i].reply # <<>>
    /\ writes' = RemoveAt(writes, i)

\* The step issues a write request.
WriteIssued == Len(writes') = Len(writes) + 1

\* The step issues a read request.
ReadIssued == Len(reads') = Len(reads) + 1

\* A settled request failed: the fetch was rejected, the status is outside
\* 200..299, or (a read) the body is no JSON.
HttpFailed(r) == ~r.rejected /\ (r.status < 200 \/ r.status > 299)
ReadFailed(r) == r.rejected \/ HttpFailed(r) \/ r.json = <<>>
WriteFailed(r) == r.rejected \/ HttpFailed(r)

TerminalStatuses == {"MISSING_ID", "ALREADY_SUBMITTED", "SUCCESS"}

-----------------------------------------------------------------------------
(* C1: whenever loadData runs without a targetId (the mount effect and the   *)
(* retry button) while the URL has no 'id' parameter, or an empty one, the   *)
(* status becomes MISSING_ID and that run issues no read and no write.       *)
C1_MissingIdNoRequest ==
    [][ ((Mount \/ Retry) /\ Falsy(urlId))
          => (status' = "MISSING_ID" /\ reads' = reads /\ writes' = writes) ]_vars

\* The page was opened without an id, the mount effect has run and nothing
\* is in flight.
C1_Witness ==
    /\ mounted
    /\ urlId = Null
    /\ history = <<>>
    /\ status = "MISSING_ID"
    /\ reads = <<>> /\ writes = <<>>

(* C2, as stated: once status is MISSING_ID, ALREADY_SUBMITTED or SUCCESS no *)
(* step changes it.  The sample-id button of the MISSING_ID screen refutes   *)
(* it.                                                                       *)
C2_TerminalAsStated ==
    [][ (status \in TerminalStatuses) => (status' = status) ]_vars

(* C2, amended: ALREADY_SUBMITTED and SUCCESS are terminal; MISSING_ID is    *)
(* left only by handleTestLink, which sets LOADING, puts the test id in the  *)
(* URL and issues a read for it.                                             *)
C2_TerminalAmended ==
    [][ /\ (status \in {"ALREADY_SUBMITTED", "SUCCESS"}) => (status' = status)
        /\ (status = "MISSING_ID" /\ status' # status)
             => /\ HandleTestLink
                /\ status' = "LOADING"
                /\ urlId' = testId
                /\ ReadIssued /\ Last(reads').id = testId ]_vars

\* A read for the test id is in flight on a page opened without an id: the
\* MISSING_ID screen was left by its sample-id button.
C2_Witness ==
    /\ status = "LOADING"
    /\ history = << Null >>
    /\ urlId = testId
    /\ Len(reads) = 1 /\ reads[1].id = testId /\ reads[1].reply = <<>>

(* C3: when the continuation of handleSubmit runs for a write that failed    *)
(* (non-success response or thrown error), status stays IDLE, the three      *)
(* field values are unchanged, errorMessage is non-empty and isSubmitting is *)
(* false, so the submit button is enabled again.                             *)
C3_WriteFailureKeepsForm ==
    [][ \A i \in DOMAIN writes :
          (WriteResumes(i) /\ WriteFailed(writes[i].reply[1]))
            => /\ status = "IDLE" /\ status' = "IDLE"
               /\ formState' = formState
               /\ ~IsEmptyText(errorMessage')
               /\ isSubmitting' = FALSE
               /\ FormRendered' /\ SubmitEnabled' ]_vars

\* The form after a failed write: the message is shown, the values typed are
\* still there and the button is enabled.
C3_Witness ==
    /\ status = "IDLE"
    /\ errorMessage = SubmitFailedMessage
    /\ ~isSubmitting
    /\ writes = <<>>
    /\ company = <<" ", "a", " ", "b", " ">>

(* C4: when the continuation of handleSubmit runs for a write with a success *)
(* response, status becomes SUCCESS; in status SUCCESS no step changes       *)
(* company, profession or description and no step issues a write.            *)
C4_SuccessEndsEditing ==
    [][ /\ \A i \in DOMAIN writes :
              (WriteResumes(i) /\ ~WriteFailed(writes[i].reply[1]))
                => status' = "SUCCESS"
        /\ status = "SUCCESS"
             => /\ formState' = formState
                /\ ~WriteIssued
                /\ ~FormRendered' ]_vars

\* SUCCESS reached with the values that were submitted.
C4_Witness ==
    /\ status = "SUCCESS"
    /\ FieldsValid
    /\ writes = <<>>

(* C5: at most one request is in flight in every reachable state: never a    *)
(* read together with a write, never two reads, never two writes; and a      *)
(* write is in flight only while isSubmitting is true.                       *)
C5_OneRequestInFlight ==
    /\ Len(reads) + Len(writes) <= 1
    /\ writes # <<>> => isSubmitting

\* A write in flight and nothing else, in a session that went through the
\* sample id.
C5_Witness ==
    /\ Len(writes) = 1 /\ writes[1].reply = <<>>
    /\ reads = <<>>
    /\ history # <<>>
    /\ isSubmitting

(* C6: when the continuation of loadData runs for a read that got a success *)
(* response whose record has Submitted = "Yes", status becomes              *)
(* ALREADY_SUBMITTED whatever the record's other fields are, and            *)
(* prefillData stays null: the record is not stored.                        *)
C6_SubmittedRecord ==
    [][ \A i \in DOMAIN reads :
          ( /\ ReadResumes(i)
            /\ ~ReadFailed(reads[i].reply[1])
            /\ reads[i].reply[1].json[1].Submitted = "Yes" )
            => /\ status' = "ALREADY_SUBMITTED"
               /\ prefillData' = <<>> ]_vars

\* ALREADY_SUBMITTED reached, no record stored.
C6_Witness ==
    /\ status = "ALREADY_SUBMITTED"
    /\ prefillData = <<>>
    /\ reads = <<>>

(* C7: when the continuation of loadData runs for a read that got a success *)
(* response whose record has Submitted other than "Yes" (absent included),   *)
(* status becomes IDLE, the record is stored, and in the state entered       *)
(* company, profession and description are empty, whatever the record holds  *)
(* and whatever errors, retries and sample-id runs came before.              *)
C7_FreshRecord ==
    [][ \A i \in DOMAIN reads :
          ( /\ ReadResumes(i)
            /\ ~ReadFailed(reads[i].reply[1])
            /\ reads[i].reply[1].json[1].Submitted # "Yes" )
            => /\ status' = "IDLE"
               /\ prefillData' = << reads[i].reply[1].json[1] >>
               /\ company' = <<>>
               /\ profession' = <<>>
               /\ description' = <<>> ]_vars

\* IDLE entered, after the sample-id button, with a record that carries a
\* Company and Submitted = "No": the three fields are empty.
C7_Witness ==
    /\ status = "IDLE"
    /\ history # <<>>
    /\ prefillData # <<>>
    /\ prefillData[1].Company = "Acme"
    /\ prefillData[1].Submitted = "No"
    /\ company = <<>> /\ profession = <<>> /\ description = <<>>

(* C8: when the continuation of loadData runs for a read that failed (a     *)
(* non-success response, a thrown error), status becomes ERROR and           *)
(* errorMessage is non-empty; for status 404 the message names the id        *)
(* requested, and it differs from the message of every other non-success     *)
(* status, whatever its status text.                                         *)
C8_ReadFailure ==
    [][ \A i \in DOMAIN reads :
          (ReadResumes(i) /\ ReadFailed(reads[i].reply[1]))
            => /\ status' = "ERROR"
               /\ ~IsEmptyText(errorMessage')
               /\ (HttpFailed(reads[i].reply[1]) /\ reads[i].reply[1].status = 404)
                    => /\ \E k \in DOMAIN errorMessage' :
                              errorMessage'[k] = reads[i].id
                       /\ \A c \in FailureCodes \ {404}, t \in StatusTexts :
                              errorMessage' #
                                LoadDataThrown(reads[i].id,
                                               Fulfilled(c, t, <<>>))[1].message
        ]_vars

\* The ERROR screen with the not-found message for the id of the URL.
C8_Witness ==
    /\ status = "ERROR"
    /\ urlId = "u1"
    /\ errorMessage = NotFoundMessage("u1")

(* C9: the id of a write request is the loaded record's Link when Link is   *)
(* non-empty (also when the URL's id differs from it), otherwise the 'id'    *)
(* parameter of the URL at submit time, and the empty string exactly when    *)
(* Link is empty and the URL has no id or an empty one.                      *)
C9_SubmissionId ==
    [][ WriteIssued =>
          LET link == prefillData[1].Link
              sent == Last(writes').payload.id
          IN  /\ prefillData # <<>>
              /\ link # "" => sent = link
              /\ (link = "" /\ urlId \notin {Null, ""}) => sent = urlId
              /\ sent = "" <=> (link = "" /\ urlId \in {Null, ""}) ]_vars

\* A write in flight whose id is the record's Link while the URL carries
\* another id.
C9_Witness ==
    /\ Len(writes) = 1
    /\ prefillData # <<>>
    /\ prefillData[1].Link = "k9"
    /\ urlId = "u1"
    /\ writes[1].payload.id = "k9"

\* t is s without its leading and trailing white space.
IsTrimOf(t, s) ==
    \E i \in 0..Len(s), j \in 0..Len(s) :
        /\ i + j <= Len(s)
        /\ t = SubSeq(s, i + 1, Len(s) - j)
        /\ \A k \in 1..i : s[k] \in WhiteSpace
        /\ \A k \in (Len(s) - j + 1)..Len(s) : s[k] \in WhiteSpace
        /\ t # <<>> => (t[1] \notin WhiteSpace /\ t[Len(t)] \notin WhiteSpace)

(* C10: the Company, Profession and Description of a write request are the  *)
(* values of company, profession and description when the submit is          *)
(* triggered, without their leading and trailing white space; the step that  *)
(* builds the payload leaves the three stored values as they are.            *)
C10_TrimmedPayload ==
    [][ WriteIssued =>
          LET sent == Last(writes').payload
          IN  /\ IsTrimOf(sent.Company, company)
              /\ IsTrimOf(sent.Profession, profession)
              /\ IsTrimOf(sent.Description, description)
              /\ formState' = formState ]_vars

\* A write in flight: the company sent has lost its outer blanks and kept
\* its inner one, the blank-only description was sent empty, and the stored
\* values still have their blanks.
C10_Witness ==
    /\ Len(writes) = 1
    /\ company = <<" ", "a", " ", "b", " ">>
    /\ description = <<" ">>
    /\ writes[1].payload.Company = <<"a", " ", "b">>
    /\ writes[1].payload.Description = <<>>

(* C11, as stated: from ERROR the retry button sets status to LOADING,      *)
(* clears errorMessage and, when the URL has an id, issues a read for it.    *)
(* A retry after the Back button took the test id out of the URL refutes     *)
(* it: the status it leaves is MISSING_ID.                                   *)
C11_RetryAsStated ==
    [][ (status = "ERROR" /\ Retry)
          => /\ status' = "LOADING"
             /\ errorMessage' = EmptyText
             /\ ~Falsy(urlId) => (ReadIssued /\ Last(reads').id = urlId) ]_vars

(* C11, amended: from ERROR the retry button clears errorMessage and re-runs *)
(* the read flow with the id now in the URL: with an id there, status        *)
(* becomes LOADING and one read for that id is issued; with none, status     *)
(* becomes MISSING_ID and nothing is issued.  Whenever status is LOADING     *)
(* after the mount, exactly one read is in flight, so the flow can end in    *)
(* IDLE, ALREADY_SUBMITTED or ERROR again.                                   *)
C11_RetryAmended ==
    [][ /\ (status = "ERROR" /\ Retry)
             => /\ errorMessage' = EmptyText
                /\ writes' = writes
                /\ IF Falsy(urlId)
                   THEN status' = "MISSING_ID" /\ reads' = reads
                   ELSE /\ status' = "LOADING"
                        /\ reads' = Append(reads, ReadRequest(urlId))
        /\ (status' = "LOADING" /\ mounted') => Len(reads') = 1 ]_vars

\* IDLE reached by a session whose only click was the retry button.
C11_Witness ==
    /\ status = "IDLE"
    /\ userActions = << "retry" >>
    /\ requestCount = 2

(* C12: no request is issued on the page's own account but the one read of  *)
(* the mount effect: every step that issues a request issues exactly one and *)
(* is the mount effect or a click on retry, sample id or submit, so the      *)
(* requests issued never exceed one plus those clicks; a settled or failed   *)
(* request issues nothing.                                                   *)
C12_NoAutomaticRequest ==
    [][ /\ requestCount' <= 1 + Len(userActions')
        /\ requestCount' # requestCount
             => /\ requestCount' = requestCount + 1
                /\ Mount \/ Len(userActions') = Len(userActions) + 1
        /\ (\E i \in DOMAIN reads : ReadResumes(i))
             => requestCount' = requestCount
        /\ (\E i \in DOMAIN writes : WriteResumes(i))
             => requestCount' = requestCount ]_vars

\* The ERROR screen after the mount's read and two retries failed: three
\* requests were issued, none is in flight.
C12_Witness ==
    /\ status = "ERROR"
    /\ userActions = << "retry", "retry" >>
    /\ requestCount = 3
    /\ reads = <<>> /\ writes = <<>>

\* The submit event can be fired: the form is rendered, its button is not
\* disabled and the three required values are there.
SubmitTriggerable == FormRendered /\ SubmitEnabled /\ FieldsValid

(* C13: a write is issued only from status IDLE with a record loaded: in    *)
(* every reachable state where the submit can be triggered, status is IDLE   *)
(* and prefillData is non-null; every step that issues a write starts in     *)
(* IDLE with a stored record whose Submitted is not "Yes" (so after a read   *)
(* succeeded, not for a submitted record, not after SUCCESS); a handleSubmit *)
(* run with no record issues nothing and changes nothing.                    *)
C13_WriteOnlyFromIdle ==
    [][ /\ SubmitTriggerable' => (status' = "IDLE" /\ prefillData' # <<>>)
        /\ WriteIssued
             => /\ status = "IDLE" /\ status' = "IDLE"
                /\ prefillData # <<>>
                /\ prefillData[1].Submitted # "Yes"
                /\ reads = <<>>
        /\ (SubmitForm /\ prefillData = <<>>) => UNCHANGED pageVars ]_vars

\* The first write of a session, in flight from the IDLE screen for a record
\* whose Submitted is "No".
C13_Witness ==
    /\ status = "IDLE"
    /\ history = <<>>
    /\ Len(writes) = 1 /\ writes[1].reply = <<>>
    /\ prefillData # <<>>
    /\ prefillData[1].Submitted = "No"
    /\ prefillData[1].Link = "u1"

(* C14: the step that issues a write sets isSubmitting to true and           *)
(* errorMessage to the empty string, and in every reachable state with a     *)
(* write in flight errorMessage is empty and isSubmitting is true: the       *)
(* message of an earlier failed submit is not shown during a later one.      *)
C14_SubmitClearsError ==
    [][ /\ WriteIssued => (isSubmitting' /\ errorMessage' = EmptyText)
        /\ writes' # <<>> => (isSubmitting' /\ errorMessage' = EmptyText) ]_vars

\* The second submit of a session in flight, the first one having failed: no
\* message is shown.
C14_Witness ==
    /\ userActions = << "submit", "submit" >>
    /\ requestCount = 3
    /\ Len(writes) = 1 /\ writes[1].reply = <<>>
    /\ errorMessage = EmptyText
    /\ isSubmitting

\* The step runs loadData up to its await, or its continuation.
LoadDataRuns == Mount \/ Retry \/ HandleTestLink
ReadCallbackRuns == \E i \in DOMAIN reads : ReadResumes(i)

(* C15: company, profession, description and isSubmitting change only in    *)
(* steps that start in status IDLE; every loadData run (mount effect, retry, *)
(* sample id) and every continuation of a read leaves the four unchanged.    *)
C15_FormTouchedOnlyInIdle ==
    [][ /\ (formState' # formState \/ isSubmitting' # isSubmitting)
             => status = "IDLE"
        /\ (LoadDataRuns \/ ReadCallbackRuns)
             => (formState' = formState /\ isSubmitting' = isSubmitting) ]_vars

\* The ERROR screen of a session whose form was never rendered: a retry has
\* run, a read has failed again, and the four values are the initial ones.
C15_Witness ==
    /\ status = "ERROR"
    /\ userActions = << "retry" >>
    /\ requestCount = 2
    /\ company = <<>> /\ profession = <<>> /\ description = <<>>
    /\ ~isSubmitting

(* C16: in every reachable state with status SUCCESS, isSubmitting is true. *)
C16_SuccessKeepsSubmitting == status = "SUCCESS" => isSubmitting

\* SUCCESS after the write's continuation has run: the flag is still set
\* though nothing is in flight.
C16_Witness ==
    /\ status = "SUCCESS"
    /\ isSubmitting
    /\ writes = <<>>
    /\ errorMessage = EmptyText

(* C17: once prefillData holds a record no step changes it: not an edit, a  *)
(* submit, a failed or a successful write, nor another read; so it is set    *)
(* at most once in a session.                                                *)
C17_RecordImmutable ==
    [][ prefillData # <<>> => prefillData' = prefillData ]_vars

\* SUCCESS after a failed and a successful submit: the record of the read is
\* still the one stored.
C17_Witness ==
    /\ status = "SUCCESS"
    /\ userActions = << "submit", "submit" >>
    /\ prefillData # <<>>
    /\ prefillData[1].Company = "Acme"

(* C18: provided every request issued completes and the queued callbacks   *)
(* run (Fairness), status LOADING always leads to MISSING_ID, ERROR,         *)
(* ALREADY_SUBMITTED or IDLE, and a submit in flight (IDLE with isSubmitting *)
(* true) always leads to SUCCESS or to isSubmitting false.  Nothing else     *)
(* ends the wait (no timeout, no cancellation): after the mount, LOADING is  *)
(* left only by the continuation of a read, and a submit in flight is ended  *)
(* only by the continuation of a write.                                      *)
C18_RequestsComplete ==
    /\ (status = "LOADING")
         ~> (status \in {"MISSING_ID", "ERROR", "ALREADY_SUBMITTED", "IDLE"})
    /\ (status = "IDLE" /\ isSubmitting)
         ~> (status = "SUCCESS" \/ ~isSubmitting)
    /\ [][ /\ (mounted /\ status = "LOADING" /\ status' # "LOADING")
                 => ReadCallbackRuns
           /\ ( /\ status = "IDLE" /\ isSubmitting
                /\ (status' # "IDLE" \/ ~isSubmitting') )
                 => \E i \in DOMAIN writes : WriteResumes(i) ]_vars

\* A submit in flight whose request has not settled: nothing but the reply
\* can end it.
C18_Witness ==
    /\ status = "IDLE"
    /\ isSubmitting
    /\ Len(writes) = 1 /\ writes[1].reply = <<>>
    /\ history # <<>>
    /\ urlId = testId

(* C19: in every reachable state with status IDLE, prefillData holds a      *)
(* record, and its Submitted is not "Yes"; so whenever the submit can be     *)
(* triggered a record is loaded and the guard of handleSubmit does not fire. *)
C19_IdleHasRecord ==
    /\ status = "IDLE"
         => (prefillData # <<>> /\ prefillData[1].Submitted # "Yes")
    /\ SubmitTriggerable => prefillData # <<>>

\* The IDLE screen with the three values typed and the button enabled, for a
\* record that has no Submitted field.
C19_Witness ==
    /\ SubmitTriggerable
    /\ writes = <<>>
    /\ errorMessage = EmptyText
    /\ prefillData # <<>>
    /\ prefillData[1].Submitted = Undefined

\* errorMessage as the status requires it: empty in LOADING, non-empty in
\* ERROR.
MessageFitsStatus ==
    /\ status = "LOADING" => errorMessage = EmptyText
    /\ status = "ERROR" => ~IsEmptyText(errorMessage)

(* C20: in every reachable state errorMessage is empty when status is       *)
(* LOADING and non-empty when status is ERROR; the step that enters IDLE     *)
(* leaves it empty; the step that enters ERROR is the continuation of a      *)
(* failed read, and no continuation of a write ends in ERROR.                *)
C20_MessageConsistent ==
    [][ /\ MessageFitsStatus /\ MessageFitsStatus'
        /\ (status # "IDLE" /\ status' = "IDLE") => errorMessage' = EmptyText
        /\ (status # "ERROR" /\ status' = "ERROR")
             => \E i \in DOMAIN reads :
                    ReadResumes(i) /\ ReadFailed(reads[i].reply[1])
        /\ (\E i \in DOMAIN writes : WriteResumes(i)) => status' # "ERROR"
      ]_vars

\* The ERROR screen for a status 500 with an empty status text: the message
\* is still not empty.
C20_Witness ==
    /\ status = "ERROR"
    /\ errorMessage = ServerErrorMessage(500, "")
    /\ reads = <<>>

=============================================================================
